---- MODULE Spec2Model ----
(***************************************************************************)
(* Model of the DOCX document-surgery layer of docx-editor.                *)
(*                                                                         *)
(* One uploaded document is modelled: its archive on disk (the parts of    *)
(* the ZIP that the code reads or writes) and its records in the store     *)
(* (Paragraph and Comment rows).  Every request handler of                 *)
(* docx_editor/views.py that mutates the archive is one action; I/O and    *)
(* parse failures are injected through the input "fail", which names the   *)
(* stage of the file-side operation at which an exception is raised.       *)
(*                                                                         *)
(* The scheduled deletion of comments is modelled with a clock, the cancel *)
(* request and the sweep of process_scheduled_deletions, whose loop takes  *)
(* one pass per step.  Requests handled at the same time are modelled by   *)
(* processes that take the steps of a file-side operation one at a time,   *)
(* on the archive of the document or on that of a second document.         *)
(***************************************************************************)
EXTENDS Integers, Sequences, FiniteSets, TLC

VARIABLES
    archive,    \* the .docx file on disk
    paras,      \* Paragraph rows of the document
    comments,   \* Comment rows of the document
    nextUid,    \* next fresh identity for a paragraph element / row
    nops,       \* number of requests handled so far
    last,       \* the request handled last and its outcome
    pre,        \* archive and store as they were before that request
    hist,       \* the request handled before the last one, and its pre-state
    doc,        \* version fields of the Document row
    version,    \* the document version that an edit created automatically
    now,        \* the clock (timezone.now(), in minutes)
    sweep,      \* the run of process_scheduled_deletions, if one is under way
    procs,      \* file-side operations in progress, step by step
    temp_dirs,  \* the scratch directories on disk, by path
    backups,    \* the backup copies on disk, by path
    other,      \* the archive of a second document
    documents   \* the Document rows of the uploads and versions whose file
                \* names, paths and version chains are followed

vars == <<archive, paras, comments, nextUid, nops, last, pre, hist,
          doc, version, now, sweep, procs, temp_dirs, backups, other, documents>>

-----------------------------------------------------------------------------
(* Bounds *)

MaxOps == 2            \* requests handled in one behaviour

-----------------------------------------------------------------------------
(* Texts.  str.strip() is modelled on the strings the model uses. *)

\* texts a request may carry: a non-blank text and the empty text
NewTexts == {"T", ""}

Strip(t) ==
    CASE t = " "  -> ""
      [] t = " T" -> "T"
      [] OTHER    -> t

Min(S) == CHOOSE x \in S : \A y \in S : x <= y
Max(S) == CHOOSE x \in S : \A y \in S : x >= y

\* the members of the index set S in ascending order
SortedSeq(S) ==
    [k \in 1..Cardinality(S) |->
        CHOOSE i \in S : Cardinality({j \in S : j <= i}) = k]

\* the k-th smallest member of the index set S, 0 when there is none
Nth(S, k) ==
    IF k \in 1..Cardinality(S) THEN SortedSeq(S)[k] ELSE 0

RemoveAt(s, i) == SubSeq(s, 1, i - 1) \o SubSeq(s, i + 1, Len(s))

\* list.insert(index, e) of Python, index counted from 0
InsertAt(s, index, e) ==
    LET i == IF index > Len(s) THEN Len(s) ELSE index
    IN  SubSeq(s, 1, i) \o <<e>> \o SubSeq(s, i + 1, Len(s))

-----------------------------------------------------------------------------
(* word/document.xml.                                                      *)
(* The body is the sequence of the children of w:body.  A child is a       *)
(* paragraph (kind "p"), a table holding one paragraph in a cell (kind     *)
(* "tbl": that paragraph is a descendant of the body but not a child), or  *)
(* the section properties (kind "sect").  text is the concatenation of the *)
(* paragraph's w:t nodes, img tells whether a run holds a w:drawing whose  *)
(* image part resolves, anch lists the comment ids whose anchor triad      *)
(* (commentRangeStart, commentRangeEnd, commentReference) the paragraph    *)
(* carries, and uid is the identity of the element.                        *)

Para(u, t)   == [uid |-> u, kind |-> "p",    text |-> t,  img |-> FALSE, anch |-> <<>>]
ImgPara(u)   == [uid |-> u, kind |-> "p",    text |-> "", img |-> TRUE,  anch |-> <<>>]
TblPara(u, t) == [uid |-> u, kind |-> "tbl", text |-> t,  img |-> FALSE, anch |-> <<>>]
SectPr       == [uid |-> 0, kind |-> "sect", text |-> "", img |-> FALSE, anch |-> <<>>]

\* root.findall('.//w:p'): every paragraph of the document, in document order
DescendantParas(body) == {i \in 1..Len(body) : body[i].kind \in {"p", "tbl"}}

\* body.findall('w:p'): the paragraphs that are children of the body
ChildParas(body) == {i \in 1..Len(body) : body[i].kind = "p"}

\* para_text.strip() is non-empty
HasText(e) == Strip(e.text) # ""

-----------------------------------------------------------------------------
(* The derived numbering, as each place of the code computes it.  Each     *)
(* operator gives the set of body indices of the paragraphs that the place *)
(* counts; paragraph number N is the N-th of them in document order.       *)

\* a scan that counts every paragraph, blank or not
AllNumbered(body) == DescendantParas(body)

\* upload parse: descendants with text or an image
ParseNumbered(body) ==
    {i \in DescendantParas(body) : HasText(body[i]) \/ body[i].img}

\* replace-text: descendants with text
UpdateNumbered(body) == {i \in DescendantParas(body) : HasText(body[i])}

\* insert-paragraph: children of the body with text
InsertNumbered(body) == {i \in ChildParas(body) : HasText(body[i])}

\* delete-paragraph: children of the body with text
DeleteNumbered(body) == {i \in ChildParas(body) : HasText(body[i])}

\* add-comment anchor placement: descendants with text
AnchorNumbered(body) == {i \in DescendantParas(body) : HasText(body[i])}

\* comment-anchor lookup on upload: descendants with text
LookupNumbered(body) == {i \in DescendantParas(body) : HasText(body[i])}

\* text_content of _process_paragraph: the text of the runs, and the marker
\* "[IMAGE]" for a drawing whose image part was extracted
ProcessParagraphText(e) == IF e.img THEN e.text \o "[IMAGE]" ELSE e.text

\* the enumeration of a body: the numbered paragraphs, in order
Enumerate(body) ==
    [k \in 1..Cardinality(ParseNumbered(body)) |-> body[Nth(ParseNumbered(body), k)]]

EnumTexts(body) ==
    [k \in 1..Cardinality(ParseNumbered(body)) |-> ProcessParagraphText(Enumerate(body)[k])]

EnumUids(body) ==
    [k \in 1..Cardinality(ParseNumbered(body)) |-> Enumerate(body)[k].uid]

-----------------------------------------------------------------------------
(* The archive: the parts of the .docx ZIP that the code reads or writes.  *)
(*   zip        "ok", or "partial" for a file that a failed repack left    *)
(*              behind (opened for writing, not completely written)        *)
(*   body       the children of w:body in word/document.xml                *)
(*   cpart      word/comments.xml exists                                   *)
(*   cxml       the w:id of each w:comment of comments.xml, in order       *)
(*   cblank     the ids of the comments of comments.xml that have no text  *)
(*   relsPart   word/_rels/document.xml.rels exists                        *)
(*   rels       its Relationship entries: the N of Id "rIdN", and Target   *)
(*   ctPart     [Content_Types].xml exists                                 *)
(*   ctOverride it holds the Override for /word/comments.xml               *)

PartialZip ==
    [zip |-> "partial", body |-> <<>>, cpart |-> FALSE, cxml |-> <<>>, cblank |-> {},
     relsPart |-> FALSE, rels |-> <<>>, ctPart |-> FALSE, ctOverride |-> FALSE]

(* Stages of a file-side operation at which an exception may be raised.    *)
(* "extract", "lookup", "mutate" and "write" are the mutation step: they   *)
(* lie after the backup copy and before the repack.  "ctypes" is an        *)
(* exception inside ensure_comments_content_type (add-comment only), which *)
(* also lies in the mutation step.  "format" is an exception while an XML  *)
(* part is re-formatted and "repack" one while the ZIP is written.         *)
MutationStages == {"extract", "lookup", "mutate", "write"}
Stages == {"none"} \cup MutationStages \cup {"format", "repack"}
CommentStages == Stages \cup {"ctypes"}

\* _recreate_docx_with_proper_xml_formatting: the archive it leaves on disk.
\* An exception in _format_xml_file is caught there (the part keeps its
\* formatting); an exception while the ZIP is written is caught by the outer
\* handler, which returns False and leaves the file that was opened with 'w'.
recreate_docx_with_proper_xml_formatting(scratch, fail) ==
    IF fail = "repack" THEN PartialZip ELSE scratch

\* The try/except envelope of a file-side mutation.  ar is the archive on
\* disk, ok tells whether the mutation step completes without raising, and
\* scratch is the package in the scratch directory after that step.  The
\* result is the archive on disk at return and whether the call raised.
Envelope(ar, fail, ok, scratch) ==
    LET backup == ar        \* shutil.copy2(file_path, backup_path)
    IN  IF ar.zip # "ok" \/ fail \in MutationStages \/ ~ok
        THEN \* except: copy2(backup_path, file_path); remove backup; raise e
             [archive |-> backup, raised |-> TRUE]
        ELSE \* the return value of the repack is ignored; backup is removed
             [archive |-> recreate_docx_with_proper_xml_formatting(scratch, fail),
              raised |-> FALSE]

update_paragraph_in_docx(ar, paragraph_id, new_text, fail) ==
    LET i == Nth(UpdateNumbered(ar.body), paragraph_id)
        \* all w:t are removed from the runs; a new w:t is added to the
        \* first run only if new_text.strip() is non-empty
        written == IF Strip(new_text) # "" THEN new_text ELSE ""
        body2 == IF i = 0 THEN ar.body ELSE [ar.body EXCEPT ![i].text = written]
    IN  Envelope(ar, fail, TRUE, [ar EXCEPT !.body = body2])

add_paragraph_to_docx(ar, uid, text, position, fail) ==
    LET new_para == Para(uid, IF Strip(text) # "" THEN text ELSE " ")
        all_paragraphs == SortedSeq(ChildParas(ar.body))
        non_empty_count(j) ==
            Cardinality({m \in 1..j : HasText(ar.body[all_paragraphs[m]])})
        hits == {j \in 1..Len(all_paragraphs) : non_empty_count(j) = position - 1}
        insert_index == IF hits = {} THEN Len(all_paragraphs) ELSE Min(hits)
        body2 == IF position > 0
                 THEN InsertAt(ar.body, insert_index, new_para)
                 ELSE Append(ar.body, new_para)
    IN  Envelope(ar, fail, TRUE, [ar EXCEPT !.body = body2])

delete_paragraph_from_docx(ar, paragraph_id, fail) ==
    LET i == Nth(DeleteNumbered(ar.body), paragraph_id)
        paragraph_deleted == i # 0
        body2 == IF paragraph_deleted THEN RemoveAt(ar.body, i) ELSE ar.body
    IN  Envelope(ar, fail, paragraph_deleted, [ar EXCEPT !.body = body2])

add_comment_reference_to_document(body, paragraph_id, comment_id) ==
    LET i == Nth(AnchorNumbered(body), paragraph_id)
    IN  IF i = 0 THEN body
        ELSE [body EXCEPT ![i].anch = Append(@, comment_id)]

ensure_comments_relationship(ar) ==
    LET existing == IF ar.relsPart THEN ar.rels ELSE <<>>
        comments_rel_exists ==
            \E k \in 1..Len(existing) : existing[k].target = "comments.xml"
        rel_id == Max({existing[k].id : k \in 1..Len(existing)} \cup {0}) + 1
    IN  IF comments_rel_exists THEN ar
        ELSE [ar EXCEPT !.relsPart = TRUE,
                        !.rels = Append(existing,
                                        [id |-> rel_id, target |-> "comments.xml"])]

ensure_comments_content_type(ar, fail) ==
    IF ~ar.ctPart \/ fail = "ctypes" THEN ar
    ELSE [ar EXCEPT !.ctOverride = TRUE]

add_comment_to_docx(ar, paragraph_id, comment_id, fail) ==
    LET a1 == [ar EXCEPT !.cpart = TRUE,
                         !.cxml = Append(IF ar.cpart THEN ar.cxml ELSE <<>>, comment_id)]
        a2 == [a1 EXCEPT !.body =
                  add_comment_reference_to_document(a1.body, paragraph_id, comment_id)]
        a3 == ensure_comments_relationship(a2)
        a4 == ensure_comments_content_type(a3, fail)
    IN  Envelope(ar, fail, TRUE, a4)

\* the sequence s without its first entry equal to x
RemoveFirst(s, x) ==
    LET at == {k \in 1..Len(s) : s[k] = x}
    IN  IF at = {} THEN s ELSE RemoveAt(s, Min(at))

\* the sequence s without any entry equal to x
RemoveAll(s, x) ==
    LET keep(y) == y # x IN SelectSeq(s, keep)

remove_comment_references_from_document(body, comment_id) ==
    [i \in 1..Len(body) |-> [body[i] EXCEPT !.anch = RemoveAll(@, comment_id)]]

delete_comment_from_docx(ar, comment_id, fail) ==
    LET \* the first w:comment with the id is removed (break); a comment
        \* without text precedes the comments that requests have added
        a1 == IF ar.cpart THEN [ar EXCEPT !.cxml = RemoveFirst(@, comment_id),
                                          !.cblank = @ \ {comment_id}]
              ELSE ar
        a2 == [a1 EXCEPT !.body =
                  remove_comment_references_from_document(a1.body, comment_id)]
    IN  Envelope(ar, fail, TRUE, a2)

-----------------------------------------------------------------------------
(* The store.  A Paragraph row is [pid, text, elem]: paragraph_id, text,   *)
(* and the identity of the row, which is the uid of the paragraph element  *)
(* the row was created for.  A Comment row is [cid, para, sched]:          *)
(* comment_id, the identity of the Paragraph row it points to, and         *)
(* scheduled_deletion_at (0 stands for NULL).                              *)

\* EnhancedDocxParser._parse_paragraphs: one row per numbered paragraph
parse_paragraphs(body) ==
    {[pid |-> k, text |-> EnumTexts(body)[k], elem |-> EnumUids(body)[k]] :
        k \in 1..Cardinality(ParseNumbered(body))}

\* UploadDocumentView.find_comment_paragraph_id: the number of the first
\* counted paragraph that holds an anchor of the comment, 1 when none does
find_comment_paragraph_id(body, comment_id) ==
    LET n == Cardinality(LookupNumbered(body))
        holds == {k \in 1..n :
                    \E j \in 1..Len(body[Nth(LookupNumbered(body), k)].anch) :
                        body[Nth(LookupNumbered(body), k)].anch[j] = comment_id}
    IN  IF holds = {} THEN 1 ELSE Min(holds)

\* UploadDocumentView.post: the Comment rows created for the comments of
\* comments.xml that have text; a comment whose paragraph number has no row
\* is skipped
upload_comments(ar, rows) ==
    IF ~ar.cpart THEN {}
    ELSE UNION {{[cid |-> ar.cxml[k], para |-> r.elem, sched |-> 0] :
                    r \in {q \in rows :
                             q.pid = find_comment_paragraph_id(ar.body, ar.cxml[k])}} :
                k \in {j \in 1..Len(ar.cxml) : ar.cxml[j] \notin ar.cblank}}

\* the rows of the document ordered by paragraph_id
OrderedRows(rows) ==
    [k \in 1..Cardinality(rows) |->
        CHOOSE r \in rows : Cardinality({q \in rows : q.pid <= r.pid}) = k]

StoreTexts(rows) == [k \in 1..Cardinality(rows) |-> OrderedRows(rows)[k].text]
StoreElems(rows) == [k \in 1..Cardinality(rows) |-> OrderedRows(rows)[k].elem]

MaxPid(rows) == Max({r.pid : r \in rows} \cup {0})
MaxCid(rows) == Max({c.cid : c \in rows} \cup {0})

\* the snapshot of archive and store taken before a request is handled
Snapshot == [archive |-> archive, paras |-> paras, comments |-> comments]

Outcome(op, arg, text, fail, code, called, raised) ==
    [op |-> op, arg |-> arg, text |-> text, fail |-> fail, code |-> code,
     called |-> called, raised |-> raised, scores |-> <<>>, at |-> now]

\* bookkeeping shared by all requests
Handled ==
    /\ nops < MaxOps
    /\ nops' = nops + 1
    /\ pre' = Snapshot
    /\ hist' = [last |-> last, pre |-> pre]
    /\ UNCHANGED <<now, sweep, procs, temp_dirs, backups, other, documents>>

-----------------------------------------------------------------------------
(* Request handlers.  Each action is one request handled from start to     *)
(* response.  code is the HTTP status of the response, called tells        *)
(* whether the file-side operation was invoked, raised whether it raised.  *)
(* The compliance model itself is outside the model: its score for each    *)
(* comment of the edited paragraph is an input of the request, in tenths.  *)

\* timedelta(minutes=5)
Delay == 5
\* score >= 0.6, in tenths
CompliantThreshold == 6
Scores == {5, 6}

NoDocuments == <<>>
NoVersion == [exists |-> FALSE, archive |-> <<>>, paras |-> {}]
Idle == [pc |-> "idle", start |-> 0, due |-> <<>>]

\* the documents on disk: the document of the requests and a second one
Files == {"A", "B"}

\* a scratch path that is the same for every file
SharedScratchPath(file_path) == <<"", "_temp">>

\* temp_dir = file_path + '_temp'
ScratchPath(file_path) == <<file_path, "_temp">>

\* backup_path = file_path + '.backup'
BackupPath(file_path) == <<file_path, ".backup">>

\* a path at which nothing exists
Missing == [zip |-> "missing"]

\* no file-side operation is in progress, and nothing is left on disk
Procs == {1, 2}
Off == [kind |-> "none", file |-> "A", arg |-> 0, text |-> "", fail |-> "none",
        pc |-> "off", raised |-> FALSE, uid |-> 0, seq |-> 0, packed |-> Missing,
        met |-> FALSE]
NoProcs == [p \in Procs |-> Off]
NoScratch == [sp \in {ScratchPath(f) : f \in Files} |-> Missing]
NoBackup == [bp \in {BackupPath(f) : f \in Files} |-> Missing]

\* Comment.objects.filter(paragraph__paragraph_id=paragraph_id)
CommentsOfNumber(rows, crows, paragraph_id) ==
    {c \in crows : \E r \in rows : r.elem = c.para /\ r.pid = paragraph_id}

\* Document.get_commented_paragraph_ids
get_commented_paragraph_ids(rows, crows) ==
    {r.pid : r \in {q \in rows : \E c \in crows : c.para = q.elem}}

\* a compliance loop that leaves the schedule of a comment that is no longer
\* compliant as it is
KeepSchedule(c, score) ==
    IF score >= CompliantThreshold /\ c.sched = 0 THEN [c EXCEPT !.sched = now + Delay]
    ELSE c

\* the compliance loop of EditParagraphView.put on one comment row
CheckCompliance(c, score) ==
    IF score >= CompliantThreshold
    THEN IF c.sched = 0 THEN [c EXCEPT !.sched = now + Delay] ELSE c
    ELSE [c EXCEPT !.sched = 0]

\* EditParagraphView.put, lines 462-475: a commented paragraph of a
\* document in status 'commented' is marked as edited
MarkedEdited(paragraph_id) ==
    /\ CommentsOfNumber(paras, comments, paragraph_id) # {}
    /\ doc.status = "commented"

\* EditParagraphView.put, lines 479-547: all commented paragraphs are edited,
\* so the document is copied to a new version, whose rows carry no comments,
\* and the edit goes to that version
VersionCreated(paragraph_id) ==
    /\ MarkedEdited(paragraph_id)
    /\ get_commented_paragraph_ids(paras, comments) \subseteq doc.edited \cup {paragraph_id}

\* Comment.objects.filter(paragraph=paragraph) of the document edited
CommentsToCheck(paragraph_id) ==
    IF VersionCreated(paragraph_id) THEN {}
    ELSE {c \in comments : \E r \in paras : r.pid = paragraph_id /\ c.para = r.elem}

\* the score inputs of one edit request: one score per comment checked
ScoreInputs(paragraph_id) == [{c.cid : c \in CommentsToCheck(paragraph_id)} -> Scores]

\* the rows of a document whose edit is applied to them in any case
EditedRows(version_created, rows) == rows

\* EditParagraphView.put, lines 538-553: once a version was created the
\* request goes on with the new document, so the rows of the document that
\* was addressed stay as they are
ParentRows(version_created, rows) == IF version_created THEN paras ELSE rows

\* EditParagraphView.put; sc gives the score of each comment that is checked
EditParagraph(paragraph_id, new_text, sc, fail) ==
    LET found == {r \in paras : r.pid = paragraph_id}
        edited == IF MarkedEdited(paragraph_id)
                  THEN doc.edited \cup {paragraph_id} ELSE doc.edited
        version_created == VersionCreated(paragraph_id)
        comments_to_check == CommentsToCheck(paragraph_id)
        \* the file-side update is attempted only if testzip() passes, and
        \* whatever it raises is caught and logged
        called == found # {} /\ archive.zip = "ok"
        res == update_paragraph_in_docx(archive, paragraph_id, new_text, fail)
        rows == {IF r \in found THEN [r EXCEPT !.text = new_text] ELSE r : r \in paras}
        file == IF called THEN res.archive ELSE archive
    IN  /\ Handled
        /\ ~called => fail = "none"
        /\ sc \in ScoreInputs(paragraph_id)
        /\ doc' = [status |-> IF version_created THEN "archived" ELSE doc.status,
                   edited |-> edited]
        /\ version' = IF version_created
                      THEN [exists |-> TRUE, archive |-> file, paras |-> rows]
                      ELSE version
        /\ comments' = {IF c \in comments_to_check THEN CheckCompliance(c, sc[c.cid])
                        ELSE c : c \in comments}
        /\ paras' = ParentRows(version_created, rows)
        /\ archive' = IF version_created THEN archive ELSE file
        /\ last' = [Outcome("EditParagraph", paragraph_id, new_text, fail,
                            IF found = {} THEN 404 ELSE 200,
                            called, called /\ res.raised) EXCEPT !.scores = sc]
        /\ UNCHANGED nextUid

\* AddParagraphView.post; position 0 stands for "no position given"
AddParagraph(text, position, fail) ==
    LET new_paragraph_id == IF position > 0 THEN position ELSE MaxPid(paras) + 1
        shifted == {IF position > 0 /\ r.pid >= position
                    THEN [r EXCEPT !.pid = @ + 1] ELSE r : r \in paras}
        paragraph == [pid |-> new_paragraph_id, text |-> text, elem |-> nextUid]
        res == add_paragraph_to_docx(archive, nextUid, text, position, fail)
    IN  /\ Handled
        \* the rows are renumbered and the new row is created first
        /\ paras' = shifted \cup {paragraph}
        /\ archive' = res.archive
        /\ last' = Outcome("AddParagraph", position, text, fail,
                           IF res.raised THEN 500 ELSE 201, TRUE, res.raised)
        /\ nextUid' = nextUid + 1
        /\ UNCHANGED <<comments, doc, version>>

\* DeleteParagraphView.delete
DeleteParagraph(paragraph_id, fail) ==
    LET found == {r \in paras : r.pid = paragraph_id}
        rejected == found = {} \/ Cardinality(paras) <= 1
        \* Comment.objects.filter(paragraph=paragraph).delete()
        kept == {c \in comments : \A r \in found : c.para # r.elem}
        res == delete_paragraph_from_docx(archive, paragraph_id, fail)
        \* paragraph.delete(), then the rows after it are decremented; the
        \* loop over comments_to_update re-reads each comment's own row
        renumbered == {IF r.pid > paragraph_id THEN [r EXCEPT !.pid = @ - 1] ELSE r :
                         r \in paras \ found}
    IN  /\ Handled
        /\ rejected => fail = "none"
        /\ comments' = IF rejected THEN comments ELSE kept
        /\ archive' = IF rejected THEN archive ELSE res.archive
        /\ paras' = IF rejected \/ res.raised THEN paras ELSE renumbered
        /\ last' = Outcome("DeleteParagraph", paragraph_id, "", fail,
                           IF found = {} THEN 404
                           ELSE IF rejected THEN 400
                           ELSE IF res.raised THEN 500 ELSE 200,
                           ~rejected, ~rejected /\ res.raised)
        /\ UNCHANGED <<nextUid, doc, version>>

\* AddCommentView.post
AddComment(paragraph_id, fail) ==
    LET found == {r \in paras : r.pid = paragraph_id}
        next_comment_id == MaxCid(comments) + 1
        res == add_comment_to_docx(archive, paragraph_id, next_comment_id, fail)
    IN  /\ Handled
        /\ found = {} => fail = "none"
        /\ comments' = comments \cup
                         {[cid |-> next_comment_id, para |-> r.elem, sched |-> 0] :
                            r \in found}
        \* document.update_status_based_on_comments()
        /\ doc' = IF found # {} /\ doc.status \in {"original", "edited"}
                  THEN [doc EXCEPT !.status = "commented"] ELSE doc
        \* a failure of the file-side step is reported as docx_success false
        /\ archive' = IF found = {} THEN archive ELSE res.archive
        /\ last' = Outcome("AddComment", paragraph_id, "", fail,
                           IF found = {} THEN 404 ELSE 200,
                           found # {}, found # {} /\ res.raised)
        /\ UNCHANGED <<paras, nextUid, version>>

\* DeleteCommentView.delete
DeleteComment(comment_id, fail) ==
    LET found == {c \in comments : c.cid = comment_id}
        res == delete_comment_from_docx(archive, comment_id, fail)
    IN  /\ Handled
        /\ found = {} => fail = "none"
        /\ archive' = IF found = {} THEN archive ELSE res.archive
        \* the row is deleted only after the file-side delete returned
        /\ comments' = IF found = {} \/ res.raised THEN comments ELSE comments \ found
        /\ last' = Outcome("DeleteComment", comment_id, "", fail,
                           IF found = {} THEN 404
                           ELSE IF res.raised THEN 500 ELSE 200,
                           found # {}, found # {} /\ res.raised)
        /\ UNCHANGED <<paras, nextUid, doc, version>>

-----------------------------------------------------------------------------
(* Initial states: a document has just been uploaded and parsed.           *)

\* the uploaded bodies: each is closed by the section properties
InitBodies ==
    { <<SectPr>>,
      <<Para(1, "A"), SectPr>>,
      <<Para(1, "A"), Para(2, "B"), SectPr>>,
      <<Para(1, "A"), Para(2, "B"), Para(3, "C"), SectPr>>,
      <<Para(1, "A"), Para(2, ""), Para(3, "B"), SectPr>>,
      <<ImgPara(1), Para(2, "A"), SectPr>>,
      <<Para(1, "A"), ImgPara(2), Para(3, "B"), SectPr>>,
      <<TblPara(1, "C"), Para(2, "A"), SectPr>>,
      <<Para(1, "A"), TblPara(2, "C"), Para(3, "B"), SectPr>> }

UploadedArchive(body) ==
    [zip |-> "ok", body |-> body, cpart |-> FALSE, cxml |-> <<>>, cblank |-> {},
     relsPart |-> TRUE, rels |-> <<[id |-> 1, target |-> "styles.xml"]>>,
     ctPart |-> TRUE, ctOverride |-> FALSE]

Init ==
    \E body \in InitBodies :
        /\ archive = UploadedArchive(body)
        /\ paras = parse_paragraphs(body)
        /\ comments = upload_comments(archive, paras)
        /\ nextUid = Len(body)
        /\ nops = 0
        /\ now = 0
        /\ last = Outcome("Upload", 0, "", "none", 200, FALSE, FALSE)
        /\ pre = Snapshot
        /\ hist = [last |-> last, pre |-> pre]
        /\ doc = [status |-> "original", edited |-> {}]
        /\ version = NoVersion
        /\ sweep = Idle
        /\ procs = NoProcs
        /\ temp_dirs = NoScratch
        /\ backups = NoBackup
        /\ other = Missing
        /\ documents = NoDocuments

ParaIds == 1..(MaxPid(paras) + 1)
Positions == 0..(MaxPid(paras) + 1)
CommentIds == 1..(MaxCid(comments) + 1)

EditParagraphRequest ==
    \E p \in ParaIds, t \in NewTexts, f \in Stages :
        \E sc \in ScoreInputs(p) : EditParagraph(p, t, sc, f)
AddParagraphRequest ==
    \E t \in NewTexts, k \in Positions, f \in Stages : AddParagraph(t, k, f)
DeleteParagraphRequest ==
    \E p \in ParaIds, f \in Stages : DeleteParagraph(p, f)
AddCommentRequest ==
    \E p \in ParaIds, f \in CommentStages : AddComment(p, f)
DeleteCommentRequest ==
    \E c \in CommentIds, f \in Stages : DeleteComment(c, f)

Next ==
    \/ EditParagraphRequest
    \/ AddParagraphRequest
    \/ DeleteParagraphRequest
    \/ AddCommentRequest
    \/ DeleteCommentRequest

Spec == Init /\ [][Next]_vars

\* the same requests when no exception is injected
NextNoFault ==
    \/ \E p \in ParaIds, t \in NewTexts :
          \E sc \in ScoreInputs(p) : EditParagraph(p, t, sc, "none")
    \/ \E t \in NewTexts, k \in Positions : AddParagraph(t, k, "none")
    \/ \E p \in ParaIds : DeleteParagraph(p, "none")
    \/ \E p \in ParaIds : AddComment(p, "none")
    \/ \E c \in CommentIds : DeleteComment(c, "none")

SpecNoFault == Init /\ [][NextNoFault]_vars

-----------------------------------------------------------------------------
(* Claims *)

\* the request handled last invoked its file-side mutation
FileOpCalled == last.called

\* the exception of the request handled last was raised in the mutation
\* step of its file-side operation: after the backup, before the repack
RaisedInMutationStep == last.called /\ last.fail \in MutationStages \cup {"ctypes"}

\* C1: if an exception is raised in the mutation step of one of the five
\* archive mutations, then at return the archive on disk is identical to the
\* archive before the mutation and the exception was re-raised to the caller.
C1_CrashSafety ==
    RaisedInMutationStep => (archive = pre.archive /\ last.raised)

\* the archive that the file-side operation of the request handled last
\* produces from the archive before the request when nothing fails
MutatedVersion ==
    CASE last.op = "EditParagraph" ->
            update_paragraph_in_docx(pre.archive, last.arg, last.text, "none").archive
      [] last.op = "AddParagraph" ->
            add_paragraph_to_docx(pre.archive, nextUid - 1, last.text, last.arg, "none").archive
      [] last.op = "DeleteParagraph" ->
            delete_paragraph_from_docx(pre.archive, last.arg, "none").archive
      [] last.op = "AddComment" ->
            add_comment_to_docx(pre.archive, last.arg, MaxCid(pre.comments) + 1, "none").archive
      [] last.op = "DeleteComment" ->
            delete_comment_from_docx(pre.archive, last.arg, "none").archive
      [] OTHER -> pre.archive

\* C2: a failure at any stage after the backup was taken, the re-formatting
\* and the repack included, restores the backup and is re-raised, so that
\* whenever a mutation has returned the archive is the complete archive of
\* before the mutation or the complete mutated archive.
C2_AllOrNothing ==
    FileOpCalled =>
        /\ archive \in {pre.archive, MutatedVersion}
        /\ last.fail # "none" => (archive = pre.archive /\ last.raised)

\* the comment ids of comments.xml, and the ids that anchors of document.xml carry
XmlCommentIds(ar) == {ar.cxml[k] : k \in 1..Len(ar.cxml)}
AnchorIds(ar) ==
    UNION {{ar.body[i].anch[j] : j \in 1..Len(ar.body[i].anch)} : i \in 1..Len(ar.body)}

\* the number of anchor triads of comment cid in document.xml
TriadCount(ar, cid) ==
    Cardinality({<<i, j>> \in (1..Len(ar.body)) \X (1..MaxCid(comments) + 1) :
                    j <= Len(ar.body[i].anch) /\ ar.body[i].anch[j] = cid})

\* requests that add and delete comments only, none of them failing
NextComments ==
    \/ \E p \in ParaIds : AddComment(p, "none")
    \/ \E c \in CommentIds : DeleteComment(c, "none")

SpecComments == Init /\ [][NextComments]_vars

\* C3: after any sequence of AddComment and DeleteComment, every comment id
\* of comments.xml has exactly one anchor triad in document.xml and every
\* anchor id of document.xml has an entry in comments.xml.
C3_AnchorSymmetry ==
    /\ \A cid \in XmlCommentIds(archive) : TriadCount(archive, cid) = 1
    /\ AnchorIds(archive) \subseteq XmlCommentIds(archive)

\* C4: every place that computes the derived numbering resolves paragraph
\* number N to the same paragraph of document.xml.
C4_NumberingAgreement ==
    \A N \in 1..Len(archive.body) :
        LET b == archive.body
            parsed == Nth(ParseNumbered(b), N)
        IN  /\ Nth(UpdateNumbered(b), N) = parsed
            /\ Nth(InsertNumbered(b), N) = parsed
            /\ Nth(DeleteNumbered(b), N) = parsed
            /\ Nth(AnchorNumbered(b), N) = parsed
            /\ Nth(LookupNumbered(b), N) = parsed

\* C5: InsertParagraph of a non-blank text T at position k, 1 <= k <= n+1,
\* into an archive of n numbered paragraphs gives the enumeration of n+1
\* entries with T at number k and the former paragraphs k..n at k+1..n+1;
\* with no position given, T becomes number n+1.
C5_InsertPosition ==
    (last.op = "AddParagraph" /\ last.code = 201 /\ Strip(last.text) # "") =>
        LET before == Enumerate(pre.archive.body)
            after == Enumerate(archive.body)
            n == Len(before)
            k == IF last.arg = 0 THEN n + 1 ELSE last.arg
        IN  k \in 1..n + 1 =>
              /\ Len(after) = n + 1
              /\ after[k].uid = nextUid - 1
              /\ ProcessParagraphText(after[k]) = last.text
              /\ \A j \in 1..n : after[IF j < k THEN j ELSE j + 1] = before[j]

\* C6: ReplaceParagraphText on an existing paragraph number k with any text
\* leaves the enumeration with the same paragraphs in the same order,
\* paragraph k reading the new text and every other text unchanged.
C6_ReplaceText ==
    (last.op = "EditParagraph" /\ last.code = 200) =>
        LET before == Enumerate(pre.archive.body)
            after == Enumerate(archive.body)
            k == last.arg
        IN  k \in 1..Len(before) =>
              /\ Len(after) = Len(before)
              /\ \A j \in 1..Len(before) :
                    /\ after[j].uid = before[j].uid
                    /\ ProcessParagraphText(after[j]) =
                         IF j = k THEN last.text ELSE ProcessParagraphText(before[j])

\* the number under which the archive enumerates the paragraph element uid
\* (0 when the enumeration does not hold it)
NumberOf(body, uid) ==
    LET hits == {k \in 1..Len(EnumUids(body)) : EnumUids(body)[k] = uid}
    IN  IF hits = {} THEN 0 ELSE Min(hits)

\* the paragraph number of the store row that comment row c hangs on
RowNumber(rows, c) ==
    LET hits == {r.pid : r \in {q \in rows : q.elem = c.para}}
    IN  IF hits = {} THEN 0 ELSE Min(hits)

\* C7: DeleteParagraph(k) on a document of n >= 2 numbered paragraphs leaves
\* archive and store enumerating the original sequence with its k-th entry
\* removed; comments of paragraph k are gone, a comment of paragraph j > k
\* now resolves to j - 1 on the same physical paragraph, a comment of
\* paragraph j < k is unchanged.
C7_DeleteParagraph ==
    (last.op = "DeleteParagraph" /\ last.code = 200) =>
        LET k == last.arg
            before == pre.archive.body
        IN  /\ EnumUids(archive.body) = RemoveAt(EnumUids(before), k)
            /\ EnumTexts(archive.body) = RemoveAt(EnumTexts(before), k)
            /\ StoreElems(paras) = RemoveAt(StoreElems(pre.paras), k)
            /\ StoreTexts(paras) = RemoveAt(StoreTexts(pre.paras), k)
            /\ StoreElems(paras) = EnumUids(archive.body)
            /\ \A c \in pre.comments :
                  LET j == RowNumber(pre.paras, c)
                  IN  IF j = k
                      THEN \A d \in comments : d.cid # c.cid
                      ELSE /\ c \in comments
                           /\ RowNumber(paras, c) = IF j > k THEN j - 1 ELSE j
                           /\ NumberOf(archive.body, c.para) = RowNumber(paras, c)

\* C8: InsertParagraph(T, k) followed by DeleteParagraph(k) restores the
\* enumerated text sequence of the archive and of the store.
C8_InsertThenDelete ==
    (/\ hist.last.op = "AddParagraph" /\ hist.last.code = 201
     /\ Strip(hist.last.text) # "" /\ hist.last.arg > 0
     /\ last.op = "DeleteParagraph" /\ last.code = 200
     /\ last.arg = hist.last.arg) =>
        /\ EnumTexts(archive.body) = EnumTexts(hist.pre.archive.body)
        /\ StoreTexts(paras) = StoreTexts(hist.pre.paras)

\* C9: DeleteParagraph on a document with exactly one numbered paragraph is
\* rejected and leaves the archive, the paragraph rows and the comment rows
\* exactly as they were before the request.
C9_LastParagraphKept ==
    (last.op = "DeleteParagraph" /\ Len(Enumerate(pre.archive.body)) = 1) =>
        /\ last.code \in {400, 404}
        /\ archive = pre.archive
        /\ paras = pre.paras
        /\ comments = pre.comments

\* C10: a failure on the file side of AddParagraph or DeleteParagraph leaves
\* the paragraph and comment rows of the store as before the operation.
C10_StoreRollback ==
    (last.op \in {"AddParagraph", "DeleteParagraph"} /\ last.raised) =>
        /\ paras = pre.paras
        /\ comments = pre.comments

\* the request named a paragraph number, or a comment id, that the archive
\* does not resolve
Unresolved ==
    \/ /\ last.op \in {"EditParagraph", "DeleteParagraph", "AddComment"}
       /\ last.arg \notin 1..Len(Enumerate(pre.archive.body))
    \/ /\ last.op = "DeleteComment"
       /\ last.arg \notin XmlCommentIds(pre.archive)

\* C11: EditParagraph, DeleteParagraph and AddComment with a paragraph
\* number that does not resolve, and DeleteComment with a comment id that
\* does not resolve, answer not-found and change neither store nor archive.
C11_NotFound ==
    Unresolved =>
        /\ last.code = 404
        /\ archive = pre.archive
        /\ paras = pre.paras
        /\ comments = pre.comments

\* the relationships of document.xml.rels that target comments.xml
CommentsRels(ar) == {k \in 1..Len(ar.rels) : ar.rels[k].target = "comments.xml"}

\* C12: whenever word/comments.xml exists in the package, document.xml.rels
\* holds exactly one relationship targeting comments.xml, its rId is used by
\* no other relationship, and [Content_Types].xml holds the Override for
\* /word/comments.xml.
C12_PackageConsistency ==
    (archive.zip = "ok" /\ archive.cpart) =>
        /\ archive.relsPart
        /\ Cardinality(CommentsRels(archive)) = 1
        /\ \A k \in CommentsRels(archive) : \A m \in 1..Len(archive.rels) :
              m # k => archive.rels[m].id # archive.rels[k].id
        /\ archive.ctPart
        /\ archive.ctOverride

\* the edit found its paragraph row, and the archive was corrupt or the
\* file-side update failed
EditFileSideFailed ==
    /\ last.op = "EditParagraph"
    /\ \E r \in pre.paras : r.pid = last.arg
    /\ \/ pre.archive.zip # "ok"
       \/ last.fail \in MutationStages \cup {"repack"}

C14_DeleteCommentBestEffort ==
    (/\ last.op = "DeleteComment"
     /\ \E c \in pre.comments : c.cid = last.arg
     /\ last.raised) =>
        /\ last.code = 200
        /\ \A c \in comments : c.cid # last.arg

-----------------------------------------------------------------------------
(* Scheduled deletion: the cancel request, the clock and the sweep         *)
(* (manage.py process_scheduled_deletions), which runs in a process of its *)
(* own and handles one due comment per step.                               *)

MaxTime == 6            \* the clock stops here
Ticks == {1, Delay}

\* CancelScheduledDeletionView.post
CancelScheduledDeletion(comment_id) ==
    LET found == {c \in comments : c.cid = comment_id /\ c.sched # 0}
    IN  /\ Handled
        /\ comments' = {IF c \in found THEN [c EXCEPT !.sched = 0] ELSE c : c \in comments}
        /\ last' = Outcome("Cancel", comment_id, "", "none",
                           IF found = {} THEN 404 ELSE 200, FALSE, FALSE)
        /\ UNCHANGED <<archive, paras, nextUid, doc, version>>

\* time passes
Tick(d) ==
    /\ now + d <= MaxTime
    /\ now' = now + d
    /\ UNCHANGED <<archive, paras, comments, nextUid, nops, last, pre, hist,
                   doc, version, sweep, procs, temp_dirs, backups, other, documents>>

\* Command.handle, lines 32-36: the rows that the query of the sweep selects
DueComments(crows, time) == {c \in crows : c.sched # 0 /\ c.sched <= time}

\* the rows of a set of Comment rows as the query returns them
FetchRows(crows) ==
    [k \in 1..Cardinality(crows) |->
        CHOOSE c \in crows : Cardinality({d \in crows : d.cid <= c.cid}) = k]

\* Command.handle up to the start of the loop: now is read and the due rows
\* are fetched; a run that finds none returns at once
SweepStart ==
    /\ sweep.pc = "idle"
    /\ DueComments(comments, now) # {}
    /\ sweep' = [pc |-> "run", start |-> now, due |-> FetchRows(DueComments(comments, now))]
    /\ UNCHANGED <<archive, paras, comments, nextUid, nops, last, pre, hist,
                   doc, version, now, procs, temp_dirs, backups, other, documents>>

\* the rows left when the file side is skipped on failure: the record of a
\* comment whose file-side delete did not succeed would be kept
SweptRowsOnSuccess(crows, comment_id, docx_success) ==
    IF docx_success THEN {c \in crows : c.cid # comment_id} ELSE crows

\* Command.handle, lines 84-87: comment.delete() follows the file side
\* whatever docx_success is
SweptRows(crows, comment_id, docx_success) ==
    {c \in crows : c.cid # comment_id}

\* Command.handle, lines 51-99: one pass of the loop.  The archive is opened
\* and tested first; whatever the file side raises is caught, and the row
\* that was fetched is deleted in any case.
SweepStep(fail) ==
    LET comment == Head(sweep.due)
        called == archive.zip = "ok"
        res == delete_comment_from_docx(archive, comment.cid, fail)
        rest == Tail(sweep.due)
    IN  /\ sweep.pc = "run"
        /\ ~called => fail = "none"
        /\ archive' = IF called THEN res.archive ELSE archive
        /\ comments' = SweptRows(comments, comment.cid, called /\ ~res.raised)
        /\ sweep' = IF rest = <<>> THEN Idle ELSE [sweep EXCEPT !.due = rest]
        /\ last' = [Outcome("Sweep", comment.cid, "", fail, 0, called,
                            called /\ res.raised) EXCEPT !.at = sweep.start]
        /\ pre' = Snapshot
        /\ hist' = [last |-> last, pre |-> pre]
        /\ UNCHANGED <<paras, nextUid, nops, doc, version, now,
                       procs, temp_dirs, backups, other, documents>>

\* uploaded documents that carry comments: each comment has its entry in
\* comments.xml, its anchor, the relationship and the content-type override
CommentedBody(u, t, cids) == [Para(u, t) EXCEPT !.anch = cids]

CommentedBodies ==
    { <<CommentedBody(1, "A", <<1>>), CommentedBody(2, "B", <<2>>), SectPr>>,
      <<CommentedBody(1, "A", <<1, 2>>), Para(2, "B"), SectPr>> }

CommentedArchive(body) ==
    [zip |-> "ok", body |-> body, cpart |-> TRUE, cxml |-> <<1, 2>>, cblank |-> {},
     relsPart |-> TRUE,
     rels |-> <<[id |-> 1, target |-> "styles.xml"], [id |-> 2, target |-> "comments.xml"]>>,
     ctPart |-> TRUE, ctOverride |-> TRUE]

InitCommented ==
    \E body \in CommentedBodies :
        /\ archive = CommentedArchive(body)
        /\ paras = parse_paragraphs(body)
        /\ comments = upload_comments(archive, paras)
        /\ nextUid = Len(body)
        /\ nops = 0
        /\ now = 0
        /\ last = Outcome("Upload", 0, "", "none", 200, FALSE, FALSE)
        /\ pre = Snapshot
        /\ hist = [last |-> last, pre |-> pre]
        /\ doc = [status |-> "original", edited |-> {}]
        /\ version = NoVersion
        /\ sweep = Idle
        /\ procs = NoProcs
        /\ temp_dirs = NoScratch
        /\ backups = NoBackup
        /\ other = Missing
        /\ documents = NoDocuments

SweepFaults == {"none", "extract", "repack"}

NextSweep ==
    \/ \E p \in 1..MaxPid(paras) :
          \E sc \in ScoreInputs(p) : EditParagraph(p, "T", sc, "none")
    \/ \E c \in CommentIds : CancelScheduledDeletion(c)
    \/ \E d \in Ticks : Tick(d)
    \/ SweepStart
    \/ \E f \in SweepFaults : SweepStep(f)

SpecSweep == InitCommented /\ [][NextSweep]_vars

\* the Comment row with this comment id in a set of rows
RowsOfComment(crows, cid) == {c \in crows : c.cid = cid}

\* C15: EditParagraph deletes no comment within the request; a comment judged
\* compliant is left scheduled, five minutes ahead if it was not scheduled
\* before; and the sweep deletes a comment only if its scheduled_deletion_at
\* is non-null and not later than the start time of the sweep.
C15_DeferredDeletion ==
    /\ last.op = "EditParagraph" =>
          /\ {c.cid : c \in comments} = {c.cid : c \in pre.comments}
          /\ \A c \in comments : \A old \in RowsOfComment(pre.comments, c.cid) :
                (c.cid \in DOMAIN last.scores /\ last.scores[c.cid] >= CompliantThreshold)
                    => /\ c.sched # 0
                       /\ old.sched = 0 => c.sched = last.at + Delay
    /\ last.op = "Sweep" =>
          \A c \in RowsOfComment(pre.comments, last.arg) :
              c.sched # 0 /\ c.sched <= last.at

\* a pass of the sweep loop is taken in this step
SweepPass == sweep.pc = "run" /\ sweep' # sweep

\* C16: for each due comment the sweep tests the archive just before the
\* file-side delete; when the archive is unreadable the file-side delete is
\* not attempted, and whenever the file side fails the comment row is
\* deleted all the same and the sweep goes on with the remaining due comments.
C16_SweepBestEffort ==
    [][(SweepPass /\ (archive.zip # "ok" \/ last'.fail # "none")) =>
          /\ \A c \in comments' : c.cid # Head(sweep.due).cid
          /\ sweep'.due = Tail(sweep.due)
          /\ sweep'.pc = (IF Tail(sweep.due) = <<>> THEN "idle" ELSE "run")
          /\ archive.zip # "ok" => (~last'.called /\ archive' = archive)]_vars

\* the file side failed for one due comment, its row is gone, and the sweep
\* is still running with another due comment to handle
C16_Witness ==
    /\ last.op = "Sweep"
    /\ last.raised
    /\ RowsOfComment(pre.comments, last.arg) # {}
    /\ RowsOfComment(comments, last.arg) = {}
    /\ sweep.pc = "run"
    /\ sweep.due # <<>>

\* C17: once CancelScheduledDeletion has succeeded for a comment, the sweep
\* does not delete that comment, also when the cancel was handled while
\* the sweep was running and had not yet reached the comment.
C17_CancelWins ==
    ~ (/\ hist.last.op = "Cancel"
       /\ hist.last.code = 200
       /\ last.op = "Sweep"
       /\ last.arg = hist.last.arg)

-----------------------------------------------------------------------------
(* File-side operations step by step.  A request in progress is a process  *)
(* that takes the steps of its handler one at a time: the row update, the  *)
(* backup copy, the extraction into the scratch directory, the change of   *)
(* the extracted parts, the repack, and the removal of the scratch         *)
(* directory and of the backup.  Nothing in the code locks the archive,    *)
(* the scratch directory or the backup, so the steps of two processes      *)
(* interleave freely.  The except clause of an operation is one step.      *)

FileAt(f) == IF f = "A" THEN archive ELSE other

\* the file at path f is written; the file of the other document is not
WriteFile(f, content) ==
    /\ archive' = IF f = "A" THEN content ELSE archive
    /\ other' = IF f = "B" THEN content ELSE other

\* a valid ZIP without entries
EmptyZip == [PartialZip EXCEPT !.zip = "empty"]

\* a repack that leaves the file as it finds it
KeepZip(current, tree) == current

\* _recreate_docx_with_proper_xml_formatting, lines 155-162: the file is
\* opened with 'w' and receives what os.walk finds in the scratch directory,
\* which is nothing when the directory does not exist
WriteZip(current, tree) == IF tree = Missing THEN EmptyZip ELSE tree

\* the change an operation makes to the parts it extracted
MutatedTree(r, tree) ==
    CASE r.kind = "edit" ->
            update_paragraph_in_docx(tree, r.arg, r.text, "none").archive
      [] r.kind = "add" ->
            add_paragraph_to_docx(tree, r.uid, r.text, r.arg, "none").archive
      [] r.kind = "delp" ->
            delete_paragraph_from_docx(tree, r.arg, "none").archive
      [] r.kind = "addc" ->
            add_comment_to_docx(tree, r.arg, r.uid, "none").archive
      [] OTHER ->
            delete_comment_from_docx(tree, r.arg, "none").archive

\* update_paragraph_in_docx and add_comment_to_docx neither remove a scratch
\* directory that exists before they extract nor test that the directory and
\* the backup exist before they remove them
Unguarded == {"edit", "addc"}

\* the status a finished request answers with: EditParagraphView.put logs
\* what the file side raises, AddParagraphView.post answers 500
Code(r) == IF r.kind = "add" THEN (IF r.raised THEN 500 ELSE 201) ELSE 200

\* variables no step of a file-side operation writes
Quiet == UNCHANGED <<nops, last, pre, hist, doc, version, now, sweep, documents>>

\* a request arrives, or the sweep turns to a due comment
Begin(p, r) ==
    /\ procs[p].pc = "off"
    /\ procs' = [procs EXCEPT ![p] = r]
    /\ Quiet
    /\ UNCHANGED <<archive, other, paras, comments, nextUid, temp_dirs, backups>>

\* EditParagraphView.put, lines 635-646, and AddParagraphView.post, lines
\* 857-877: the rows are written before the file side is called
RowStep(p) ==
    LET r == procs[p]
        found == {x \in paras : x.pid = r.arg}
        rows == {IF x \in found THEN [x EXCEPT !.text = r.text] ELSE x : x \in paras}
        new_paragraph_id == IF r.arg > 0 THEN r.arg ELSE MaxPid(paras) + 1
        shifted == {IF r.arg > 0 /\ x.pid >= r.arg
                    THEN [x EXCEPT !.pid = @ + 1] ELSE x : x \in paras}
        paragraph == [pid |-> new_paragraph_id, text |-> r.text, elem |-> nextUid]
    IN  /\ r.pc = "row"
        /\ IF r.kind = "edit"
           THEN /\ paras' = rows
                /\ nextUid' = nextUid
                /\ procs' = [procs EXCEPT ![p].pc =
                                IF FileAt(r.file).zip = "ok" THEN "backup" ELSE "done"]
           ELSE /\ paras' = shifted \cup {paragraph}
                /\ nextUid' = nextUid + 1
                /\ procs' = [procs EXCEPT ![p].pc = "backup", ![p].uid = nextUid]
        /\ Quiet
        /\ UNCHANGED <<archive, other, comments, temp_dirs, backups>>

\* process_scheduled_deletions.py, lines 66-82: the archive is tested before
\* the file-side delete
TestStep(p) ==
    LET r == procs[p]
    IN  /\ r.pc = "test"
        /\ procs' = IF FileAt(r.file).zip = "ok"
                    THEN [procs EXCEPT ![p].pc = "backup"]
                    ELSE [procs EXCEPT ![p].pc = "delrow", ![p].raised = TRUE]
        /\ Quiet
        /\ UNCHANGED <<archive, other, paras, comments, nextUid, temp_dirs, backups>>

\* shutil.copy2(file_path, backup_path)
Backup(p) ==
    LET r == procs[p]
    IN  /\ r.pc = "backup"
        /\ backups' = [backups EXCEPT ![BackupPath(r.file)] = FileAt(r.file)]
        /\ procs' = [procs EXCEPT ![p].pc = "extract"]
        /\ Quiet
        /\ UNCHANGED <<archive, other, paras, comments, nextUid, temp_dirs>>

\* zip_ref.extractall(temp_dir) into a directory that holds the tree left:
\* the entries of the archive replace the files of the same name, the other
\* files of the directory stay where they are
extractall(left, file) ==
    IF left = Missing THEN file
    ELSE [file EXCEPT
            !.cpart = file.cpart \/ left.cpart,
            !.cxml = IF file.cpart THEN file.cxml ELSE left.cxml,
            !.cblank = IF file.cpart THEN file.cblank ELSE left.cblank,
            !.relsPart = file.relsPart \/ left.relsPart,
            !.rels = IF file.relsPart THEN file.rels ELSE left.rels,
            !.ctPart = file.ctPart \/ left.ctPart,
            !.ctOverride = IF file.ctPart THEN file.ctOverride ELSE left.ctOverride]

\* zip_ref.extractall(temp_dir); all operations but update_paragraph_in_docx
\* remove a scratch directory that exists first
Extract(p) ==
    LET r == procs[p]
        sp == ScratchPath(r.file)
        file == FileAt(r.file)
        cleared == IF r.kind \in Unguarded THEN temp_dirs[sp] ELSE Missing
    IN  /\ r.pc = "extract"
        \* an extraction that fails half-way leaves the directory behind
        /\ temp_dirs' = [temp_dirs EXCEPT ![sp] =
                            IF file.zip = "ok" THEN extractall(cleared, file) ELSE cleared]
        /\ procs' = [procs EXCEPT ![p].pc =
                        IF file.zip \in {"ok", "empty"} /\ r.fail # "extract"
                        THEN "mutate" ELSE "except",
                                  \* another operation is in progress meanwhile
                                  ![p].met = \E q \in Procs \ {p} :
                                                procs[q].pc \notin {"off", "row", "test", "done"}]
        /\ Quiet
        /\ UNCHANGED <<archive, other, paras, comments, nextUid, backups>>

\* the parts in the scratch directory are parsed, changed and written back;
\* update_paragraph_in_docx and add_paragraph_to_docx raise when document.xml
\* is not there, delete_comment_from_docx skips the parts it does not find
Mutate(p) ==
    LET r == procs[p]
        sp == ScratchPath(r.file)
        tree == temp_dirs[sp]
    IN  /\ r.pc = "mutate"
        /\ IF \/ r.fail = "mutate"
              \/ tree = Missing /\ r.kind \notin {"sweep", "delc"}
              \* delete_paragraph_from_docx raises when it deleted nothing
              \/ tree # Missing /\ r.kind = "delp"
                    /\ Nth(DeleteNumbered(tree.body), r.arg) = 0
           THEN /\ procs' = [procs EXCEPT ![p].pc = "except"]
                /\ UNCHANGED temp_dirs
           ELSE /\ procs' = [procs EXCEPT ![p].pc = "repack"]
                /\ temp_dirs' = IF tree = Missing THEN temp_dirs
                                ELSE [temp_dirs EXCEPT ![sp] = MutatedTree(r, tree)]
        /\ Quiet
        /\ UNCHANGED <<archive, other, paras, comments, nextUid, backups>>

\* _recreate_docx_with_proper_xml_formatting(file_path, temp_dir)
Repack(p) ==
    LET r == procs[p]
        \* an exception while the ZIP is written is caught and leaves the file
        \* that was opened with 'w'
        content == IF r.fail = "repack" THEN PartialZip
                   ELSE WriteZip(FileAt(r.file), temp_dirs[ScratchPath(r.file)])
    IN  /\ r.pc = "repack"
        /\ WriteFile(r.file, content)
        /\ procs' = [procs EXCEPT ![p].pc = "rmtree",
                                  ![p].seq = 1 + Max({procs[q].seq : q \in Procs}),
                                  ![p].packed = temp_dirs[ScratchPath(r.file)]]
        /\ Quiet
        /\ UNCHANGED <<paras, comments, nextUid, temp_dirs, backups>>

\* shutil.rmtree(temp_dir): update_paragraph_in_docx calls it without
\* testing that the directory exists
Rmtree(p) ==
    LET r == procs[p]
        sp == ScratchPath(r.file)
        gone == temp_dirs[sp] = Missing
    IN  /\ r.pc = "rmtree"
        /\ temp_dirs' = [temp_dirs EXCEPT ![sp] = Missing]
        /\ procs' = [procs EXCEPT ![p].pc =
                        IF gone /\ r.kind \in Unguarded THEN "except" ELSE "rmbackup"]
        /\ Quiet
        /\ UNCHANGED <<archive, other, paras, comments, nextUid, backups>>

\* os.remove(backup_path): update_paragraph_in_docx calls it without testing
\* that the file exists
Rmbackup(p) ==
    LET r == procs[p]
        bp == BackupPath(r.file)
        gone == backups[bp] = Missing
    IN  /\ r.pc = "rmbackup"
        /\ backups' = [backups EXCEPT ![bp] = Missing]
        /\ procs' = [procs EXCEPT ![p].pc =
                        IF gone /\ r.kind \in Unguarded THEN "except"
                        ELSE IF r.kind = "sweep" THEN "delrow" ELSE "done"]
        /\ Quiet
        /\ UNCHANGED <<archive, other, paras, comments, nextUid, temp_dirs>>

\* an except clause that restores the backup and leaves the backup file and
\* the scratch directory where they are
ExceptKeeps(p) ==
    LET r == procs[p]
        bp == BackupPath(r.file)
    IN  /\ r.pc = "except"
        /\ IF backups[bp] # Missing
           THEN WriteFile(r.file, backups[bp])
           ELSE UNCHANGED <<archive, other>>
        /\ procs' = [procs EXCEPT ![p].raised = TRUE,
                                  ![p].pc = IF r.kind = "sweep" THEN "delrow" ELSE "done"]
        /\ Quiet
        /\ UNCHANGED <<paras, comments, nextUid, temp_dirs, backups>>

\* the except clause: the backup, if there is one, is copied over the file
\* and removed, the scratch directory is removed, and the exception is
\* raised again
Except(p) ==
    LET r == procs[p]
        bp == BackupPath(r.file)
    IN  /\ r.pc = "except"
        /\ IF backups[bp] # Missing
           THEN WriteFile(r.file, backups[bp])
           ELSE UNCHANGED <<archive, other>>
        /\ backups' = [backups EXCEPT ![bp] = Missing]
        /\ temp_dirs' = [temp_dirs EXCEPT ![ScratchPath(r.file)] = Missing]
        /\ procs' = [procs EXCEPT ![p].raised = TRUE,
                                  ![p].pc = IF r.kind = "sweep" THEN "delrow" ELSE "done"]
        /\ Quiet
        /\ UNCHANGED <<paras, comments, nextUid>>

\* process_scheduled_deletions.py, lines 84-87: comment.delete()
DelRow(p) ==
    LET r == procs[p]
    IN  /\ r.pc = "delrow"
        /\ comments' = SweptRows(comments, r.arg, ~r.raised)
        /\ procs' = [procs EXCEPT ![p].pc = "done"]
        /\ Quiet
        /\ UNCHANGED <<archive, other, paras, nextUid, temp_dirs, backups>>

\* the requests of the two clients: an edit of a paragraph or a paragraph
\* appended, each client with a paragraph of its own
Mutations(p, f, faults) ==
    {[Off EXCEPT !.kind = k, !.file = f, !.arg = IF k = "edit" THEN p ELSE 0,
                 !.text = "T", !.fail = fl, !.pc = "row"] :
        k \in {"edit", "add"}, fl \in faults}

\* two requests for the same document are handled at the same time
InitRace ==
    /\ archive = UploadedArchive(<<Para(1, "A"), Para(2, "B"), SectPr>>)
    /\ paras = parse_paragraphs(archive.body)
    /\ comments = upload_comments(archive, paras)
    /\ nextUid = Len(archive.body)
    /\ nops = 0
    /\ now = 0
    /\ last = Outcome("Upload", 0, "", "none", 200, FALSE, FALSE)
    /\ pre = Snapshot
    /\ hist = [last |-> last, pre |-> pre]
    /\ doc = [status |-> "original", edited |-> {}]
    /\ version = NoVersion
    /\ sweep = Idle
    /\ procs = NoProcs
    /\ temp_dirs = NoScratch
    /\ backups = NoBackup
    /\ other = Missing
    /\ documents = NoDocuments

NextRace ==
    \E p \in Procs :
        \/ \E r \in Mutations(p, "A", {"none"}) : Begin(p, r)
        \/ RowStep(p)
        \/ Backup(p)
        \/ Extract(p)
        \/ Mutate(p)
        \/ Repack(p)
        \/ Rmtree(p)
        \/ Rmbackup(p)
        \/ Except(p)

SpecRace == InitRace /\ [][NextRace]_vars

\* both requests have been answered
BothDone == \A p \in Procs : procs[p].pc = "done"

\* an operation holds a scratch directory from its extraction to its cleanup
Extracted(p) == procs[p].pc \in {"mutate", "repack", "rmtree"}

\* C18: two archive operations running at the same time, two mutations of
\* the same archive included, extract into distinct scratch directories.
C18_DistinctScratch ==
    \A p, q \in Procs :
        (p # q /\ Extracted(p) /\ Extracted(q))
            => ScratchPath(procs[p].file) # ScratchPath(procs[q].file)

\* the processes that have repacked, and the one that repacked last
Repackers == {p \in Procs : procs[p].seq > 0}
LastRepacker == CHOOSE p \in Repackers : \A q \in Repackers : procs[q].seq <= procs[p].seq

\* the archive as it would be with the edit of process p alone
Only(p) == MutatedTree(procs[p], pre.archive)

\* C19: two mutation requests for the same document interleave their
\* extract, mutate and repack steps without any serialisation: as long as no
\* operation has taken its except clause, the archive is what the last
\* repack packed, whatever an earlier repack had written; so both requests
\* can report success while the archive holds the edit of one of them only.
C19_LastRepackWins ==
    (Repackers # {} /\ \A p \in Procs : ~procs[p].raised)
        => archive = (IF procs[LastRepacker].packed = Missing THEN EmptyZip
                      ELSE procs[LastRepacker].packed)

\* both requests report success, and the archive holds the edit of the
\* request that repacked last and not the edit of the other
C19_Witness ==
    /\ BothDone
    /\ \A p \in Procs : ~procs[p].raised /\ Code(procs[p]) \in {200, 201}
    /\ Cardinality(Repackers) = 2
    /\ archive = Only(LastRepacker)
    /\ \A q \in Procs \ {LastRepacker} :
          /\ Only(q) # pre.archive
          /\ archive # MutatedTree(procs[q], Only(LastRepacker))
          /\ archive # MutatedTree(procs[LastRepacker], Only(q))

-----------------------------------------------------------------------------
(* The sweep and a request for another document.  Process 1 handles a      *)
(* request for document A, process 2 is the pass of the sweep for a due    *)
(* comment of document B; the Comment rows are those of document B.        *)

OtherBody == <<CommentedBody(1, "A", <<1>>), CommentedBody(2, "B", <<2>>), SectPr>>
OtherArchive == CommentedArchive(OtherBody)

\* an exception raised in the mutation step of an operation
StepFaults == {"none", "mutate"}

\* the pass of the sweep for one of the comments that are due
Passes ==
    {[Off EXCEPT !.kind = "sweep", !.file = "B", !.arg = c.cid, !.fail = fl,
                 !.pc = "test"] : c \in DueComments(comments, now), fl \in StepFaults}

InitApart ==
    /\ archive = UploadedArchive(<<Para(1, "A"), Para(2, "B"), SectPr>>)
    /\ paras = parse_paragraphs(archive.body)
    /\ other = OtherArchive
    /\ documents = NoDocuments
    \* both comments of document B were scheduled at minute 0 and are due
    /\ now = Delay
    /\ comments = {[c EXCEPT !.sched = Delay] :
                      c \in upload_comments(other, parse_paragraphs(other.body))}
    /\ nextUid = Len(archive.body)
    /\ nops = 0
    /\ last = Outcome("Upload", 0, "", "none", 200, FALSE, FALSE)
    /\ pre = Snapshot
    /\ hist = [last |-> last, pre |-> pre]
    /\ doc = [status |-> "original", edited |-> {}]
    /\ version = NoVersion
    /\ sweep = Idle
    /\ procs = NoProcs
    /\ temp_dirs = NoScratch
    /\ backups = NoBackup

NextApart ==
    \/ \E r \in Mutations(1, "A", StepFaults) : Begin(1, r)
    \/ \E r \in Passes : Begin(2, r)
    \/ \E p \in Procs :
          \/ RowStep(p)
          \/ TestStep(p)
          \/ Backup(p)
          \/ Extract(p)
          \/ Mutate(p)
          \/ Repack(p)
          \/ Rmtree(p)
          \/ Rmbackup(p)
          \/ Except(p)
          \/ DelRow(p)

SpecApart == InitApart /\ [][NextApart]_vars

\* the request of process r handled alone on archive ar and rows: the
\* archive and the rows it leaves
SerialArchive(r, ar) ==
    CASE r.kind = "edit" ->
            IF ar.zip = "ok"
            THEN update_paragraph_in_docx(ar, r.arg, r.text, r.fail).archive ELSE ar
      [] r.kind = "add" ->
            add_paragraph_to_docx(ar, r.uid, r.text, r.arg, r.fail).archive
      [] OTHER ->
            IF ar.zip = "ok" THEN delete_comment_from_docx(ar, r.arg, r.fail).archive ELSE ar

SerialRows(r, rows) ==
    IF r.kind = "edit"
    THEN {IF x.pid = r.arg THEN [x EXCEPT !.text = r.text] ELSE x : x \in rows}
    ELSE rows \cup {[pid |-> MaxPid(rows) + 1, text |-> r.text, elem |-> r.uid]}

-----------------------------------------------------------------------------
(* Uploads of documents that carry comments.                               *)

\* a paragraph without text that carries the anchor of comment 1
BlankAnchored(u) == [Para(u, "") EXCEPT !.anch = <<1>>]

\* uploaded documents: the body, the ids of comments.xml, and the ids of the
\* comments without text
UploadFixtures ==
    { [body |-> <<CommentedBody(1, "A", <<1>>), CommentedBody(2, "B", <<2>>), SectPr>>,
       cxml |-> <<1, 2>>, cblank |-> {}],
      [body |-> <<Para(1, "A"), CommentedBody(2, "B", <<1>>), SectPr>>,
       cxml |-> <<1>>, cblank |-> {}],
      [body |-> <<ImgPara(1), CommentedBody(2, "A", <<1>>), SectPr>>,
       cxml |-> <<1>>, cblank |-> {}],
      [body |-> <<BlankAnchored(1), Para(2, "A"), SectPr>>,
       cxml |-> <<1>>, cblank |-> {}],
      [body |-> <<BlankAnchored(1), SectPr>>,
       cxml |-> <<1>>, cblank |-> {}],
      [body |-> <<Para(1, "A"), Para(2, "B"), SectPr>>,
       cxml |-> <<1>>, cblank |-> {}],
      [body |-> <<CommentedBody(1, "A", <<1, 2>>), Para(2, "B"), SectPr>>,
       cxml |-> <<1, 2>>, cblank |-> {2}] }

UploadedWithComments(f) ==
    [CommentedArchive(f.body) EXCEPT !.cxml = f.cxml, !.cblank = f.cblank]

InitUpload ==
    \E f \in UploadFixtures :
        /\ archive = UploadedWithComments(f)
        /\ paras = parse_paragraphs(f.body)
        /\ comments = upload_comments(archive, paras)
        /\ nextUid = Len(f.body)
        /\ nops = 0
        /\ now = 0
        /\ last = Outcome("Upload", 0, "", "none", 200, FALSE, FALSE)
        /\ pre = Snapshot
        /\ hist = [last |-> last, pre |-> pre]
        /\ doc = [status |-> "original", edited |-> {}]
        /\ version = NoVersion
        /\ sweep = Idle
        /\ procs = NoProcs
        /\ temp_dirs = NoScratch
        /\ backups = NoBackup
        /\ other = Missing
        /\ documents = NoDocuments

\* comments are added, deleted, scheduled by compliant edits and swept, one
\* request or pass at a time, none of them failing
NextUpload ==
    \/ \E p \in ParaIds : AddComment(p, "none")
    \/ \E c \in CommentIds : DeleteComment(c, "none")
    \/ \E p \in 1..MaxPid(paras) : \E sc \in ScoreInputs(p) :
          EditParagraph(p, "T", sc, "none")
    \/ \E d \in Ticks : Tick(d)
    \/ SweepStart
    \/ SweepStep("none")

SpecUpload == InitUpload /\ [][NextUpload]_vars

\* the numbers, in the enumeration of the document, of the paragraphs that
\* hold an anchor of the comment
AnchorNumbers(body, comment_id) ==
    {k \in 1..Len(Enumerate(body)) :
        \E j \in 1..Len(Enumerate(body)[k].anch) :
            Enumerate(body)[k].anch[j] = comment_id}

\* the paragraph a comment belongs to: the one that holds its anchor,
\* paragraph 1 when no numbered paragraph does
AnchorNumber(body, comment_id) ==
    IF AnchorNumbers(body, comment_id) = {} THEN 1
    ELSE Min(AnchorNumbers(body, comment_id))

\* C21: on upload every comment of comments.xml that has text is stored with
\* the paragraph that holds its anchor, or with paragraph 1 when no numbered
\* paragraph holds it; none is dropped.
C21_UploadAssociation ==
    last.op = "Upload" =>
        \A k \in 1..Len(archive.cxml) :
            archive.cxml[k] \notin archive.cblank =>
                \E c \in comments :
                    /\ c.cid = archive.cxml[k]
                    /\ \E r \in paras :
                          /\ r.elem = c.para
                          /\ r.pid = AnchorNumber(archive.body, c.cid)

\* C22: AddComment gives the new comment the id max + 1, so after any
\* sequence of upload, AddComment, DeleteComment and sweep runs no two
\* comments of the document share an id, in the store or in comments.xml.
C22_UniqueCommentIds ==
    /\ \A c, d \in comments : c.cid = d.cid => c = d
    /\ \A j, k \in 1..Len(archive.cxml) : archive.cxml[j] = archive.cxml[k] => j = k

\* the paragraphs of a body that have blank text and no image
BlankParas(body) ==
    {i \in DescendantParas(body) : ~HasText(body[i]) /\ ~body[i].img}

\* the paragraphs that some numbering scan of the code counts
NumberedBySomeScan(body) ==
    ParseNumbered(body) \cup UpdateNumbered(body) \cup InsertNumbered(body)
        \cup DeleteNumbered(body) \cup AnchorNumbered(body) \cup LookupNumbered(body)

-----------------------------------------------------------------------------
(* The five file-side mutations called one after the other, each taking    *)
(* its steps, with an exception injected while the archive is extracted,   *)
(* while the parts are changed, or while the ZIP is written.               *)

CallFaults == {"none", "extract", "mutate", "repack"}

\* the calls: the kind of mutation, its paragraph number or comment id, and
\* the identity of what it adds (paragraph element or comment id)
FileCalls ==
    {[Off EXCEPT !.kind = k, !.arg = a, !.text = "T", !.fail = fl, !.pc = "backup",
                 !.uid = IF k = "addc"
                         THEN Max(XmlCommentIds(archive) \cup {0}) + 1
                         ELSE nextUid] :
        k \in {"edit", "add", "delp", "addc", "delc"}, a \in 0..2, fl \in CallFaults}

\* a file-side mutation is called when the one before it has returned
Call(p, r) ==
    /\ procs[p].pc \in {"off", "done"}
    /\ nops < MaxOps
    /\ nops' = nops + 1
    /\ procs' = [procs EXCEPT ![p] = r]
    /\ nextUid' = IF r.kind = "add" THEN nextUid + 1 ELSE nextUid
    /\ UNCHANGED <<archive, other, paras, comments, temp_dirs, backups,
                   last, pre, hist, doc, version, now, sweep, documents>>

NextSteps ==
    \/ \E r \in FileCalls : Call(1, r)
    \/ Backup(1)
    \/ Extract(1)
    \/ Mutate(1)
    \/ Repack(1)
    \/ Rmtree(1)
    \/ Rmbackup(1)
    \/ Except(1)

SpecSteps == InitCommented /\ [][NextSteps]_vars

\* C24: when one of the five archive mutations returns, with success or by
\* raising, neither its scratch directory nor its backup file exists.
C24_NothingLeft ==
    \A p \in Procs :
        procs[p].pc = "done" =>
            /\ temp_dirs[ScratchPath(procs[p].file)] = Missing
            /\ backups[BackupPath(procs[p].file)] = Missing

\* add_comment_to_docx has returned by raising, after it had extracted the
\* archive and taken its backup
C24_Witness ==
    /\ procs[1].pc = "done"
    /\ procs[1].kind = "addc"
    /\ procs[1].raised
    /\ procs[1].fail = "mutate"

\* the request handled last called one of the five archive mutations and the
\* call returned without raising
MutationSucceeded ==
    /\ last.op \in {"EditParagraph", "AddParagraph", "DeleteParagraph",
                    "AddComment", "DeleteComment"}
    /\ last.called
    /\ ~last.raised

\* the entries of archive old are entries of archive new as well
EntriesKept(old, new) ==
    /\ new.zip = "ok"
    /\ old.cpart => new.cpart
    /\ old.relsPart => new.relsPart
    /\ old.ctPart => new.ctPart

\* C25: after a successful mutation the repacked archive holds every entry
\* of the archive before it, the parts that the mutation does not touch are
\* as they were, and every .xml part can be parsed.
C25_RepackComplete ==
    MutationSucceeded =>
        /\ EntriesKept(pre.archive, archive)
        /\ \A k \in 1..Len(pre.archive.rels) :
              \E j \in 1..Len(archive.rels) : archive.rels[j] = pre.archive.rels[k]

\* the two requests handled last (MaxOps bounds a behaviour to them) were
\* paragraph requests, or the upload, and answered with success
ParagraphRequestsSucceeded ==
    /\ nops <= 2
    /\ \A o \in {last, hist.last} :
          /\ o.op \in {"Upload", "EditParagraph", "AddParagraph", "DeleteParagraph"}
          /\ o.code \in {200, 201}

\* C26: after any sequence of successful upload, EditParagraph, AddParagraph
\* and DeleteParagraph requests the paragraph rows of the store, ordered by
\* paragraph_id, are as many as the entries of the enumeration of the
\* archive and have the same texts in the same order.
C26_StoreMatchesArchive ==
    ParagraphRequestsSucceeded => StoreTexts(paras) = EnumTexts(archive.body)

\* a position that a request may carry: none (0), any number of a row, the
\* number after the last row, and a number beyond that
AnyPositions == 0..(MaxPid(paras) + 2)

\* paragraphs are added at any position and deleted, nothing failing
NextPositions ==
    \/ \E t \in NewTexts, k \in AnyPositions : AddParagraph(t, k, "none")
    \/ \E p \in ParaIds : DeleteParagraph(p, "none")

SpecPositions == Init /\ [][NextPositions]_vars

\* C27: after any sequence of successful AddParagraph and DeleteParagraph
\* requests the paragraph_id values of the rows are exactly 1..n, n the
\* number of rows, without gap or duplicate.
C27_DenseParagraphIds ==
    (/\ nops <= 2
     /\ \A o \in {last, hist.last} :
           /\ o.op \in {"Upload", "AddParagraph", "DeleteParagraph"}
           /\ o.code \in {200, 201})
        => /\ {r.pid : r \in paras} = 1..Cardinality(paras)
           /\ \A r, q \in paras : r.pid = q.pid => r = q

\* documents that carry comments have paragraphs deleted, edited and added
\* and comments added, one request at a time, none of them failing
NextAnchored ==
    \/ \E p \in ParaIds : DeleteParagraph(p, "none")
    \/ \E p \in ParaIds : AddComment(p, "none")
    \/ \E p \in ParaIds, t \in NewTexts : \E sc \in ScoreInputs(p) :
          EditParagraph(p, t, sc, "none")
    \/ \E t \in NewTexts, k \in Positions : AddParagraph(t, k, "none")

SpecAnchored == InitCommented /\ [][NextAnchored]_vars

\* the comment ids whose anchors left document.xml with the last request
RemovedAnchors == AnchorIds(pre.archive) \ AnchorIds(archive)

\* C28: DeleteParagraph of a paragraph that carries comment anchors keeps the
\* two halves of each comment together: after it comments.xml holds no
\* entry of a comment whose anchor triad was removed from document.xml with
\* the paragraph.
C28_DeleteKeepsHalvesTogether ==
    (last.op = "DeleteParagraph" /\ last.code = 200)
        => XmlCommentIds(archive) \cap RemovedAnchors = {}

\* the file-side mutators that take a paragraph number
Mutators == {"update_paragraph_in_docx", "delete_paragraph_from_docx",
             "add_comment_to_docx"}

\* the numbers a mutator is called with: those of the numbered paragraphs
\* and the two after the last
MutatorNumbers(ar) == 1..(Cardinality(ParseNumbered(ar.body)) + 2)

\* one call of a file-side mutator on the archive of the document, the
\* store left alone; last.raised records whether the call raised
MutatorCall(mutator, paragraph_id, new_text, fail) ==
    LET comment_id == Max(XmlCommentIds(archive) \cup {0}) + 1
        res == CASE mutator = "update_paragraph_in_docx" ->
                      update_paragraph_in_docx(archive, paragraph_id, new_text, fail)
                 [] mutator = "delete_paragraph_from_docx" ->
                      delete_paragraph_from_docx(archive, paragraph_id, fail)
                 [] OTHER ->
                      add_comment_to_docx(archive, paragraph_id, comment_id, fail)
    IN  /\ Handled
        /\ archive' = res.archive
        /\ last' = Outcome(mutator, paragraph_id, new_text, fail,
                           IF res.raised THEN 500 ELSE 200, TRUE, res.raised)
        /\ UNCHANGED <<paras, comments, nextUid, doc, version>>

NextMutators ==
    \E m \in Mutators, n \in MutatorNumbers(archive), t \in NewTexts,
       f \in {"none", "mutate"} : MutatorCall(m, n, t, f)

SpecMutators == InitCommented /\ [][NextMutators]_vars

\* C29: a file-side mutator called with a paragraph number beyond the count
\* of numbered paragraphs of the archive raises, so that the archive is
\* restored; none completes without having located the paragraph.
C29_MissingParagraphRaises ==
    (/\ last.op \in Mutators
     /\ last.arg > Cardinality(ParseNumbered(pre.archive.body)))
        => last.raised /\ archive = pre.archive

\* Document.get_next_version_number: the size of the version chain plus one
get_next_version_number == (IF version.exists THEN 2 ELSE 1) + 1

\* EnhancedDocxParser._parse_paragraphs run for a document that already has
\* rows: Paragraph.objects.create raises at the first number that a row of
\* the document carries (unique_together of document and paragraph_id); the
\* rows created before it stay
ParsedInto(rows, body) ==
    LET taken == {k \in 1..Cardinality(ParseNumbered(body)) :
                     \E r \in rows : r.pid = k}
        created == {r \in parse_paragraphs(body) :
                      taken # {} => r.pid < Min(taken)}
    IN  [rows |-> rows \cup created, raised |-> taken # {}]

\* CreateNewVersionView.post for the document of the requests; the chain
\* holds at most the document and one version
CreateNewVersion ==
    LET rejected == comments = {}      \* not current_version.has_comments()
        \* shutil.copy2, Document.objects.create and the copy of the rows
        copied == paras
        \* parser.parse_document() on the copy of the file
        res == ParsedInto(copied, archive.body)
    IN  /\ Handled
        /\ ~version.exists
        /\ version' = IF rejected THEN version
                      ELSE [exists |-> TRUE, archive |-> archive, paras |-> res.rows,
                            number |-> get_next_version_number, status |-> "edited"]
        /\ doc' = IF rejected THEN doc ELSE [doc EXCEPT !.status = "archived"]
        /\ last' = Outcome("CreateNewVersion", 0, "", "none",
                           IF rejected THEN 400 ELSE IF res.raised THEN 500 ELSE 200,
                           FALSE, ~rejected /\ res.raised)
        /\ UNCHANGED <<archive, paras, comments, nextUid>>

\* versions are created of documents that carry comments, whose paragraphs
\* and comments are added and deleted and whose paragraphs are edited
NextVersion ==
    \/ CreateNewVersion
    \/ \E p \in ParaIds : AddComment(p, "none")
    \/ \E c \in CommentIds : DeleteComment(c, "none")
    \/ \E p \in ParaIds : DeleteParagraph(p, "none")
    \/ \E t \in NewTexts, k \in Positions : AddParagraph(t, k, "none")
    \/ \E p \in ParaIds, t \in NewTexts : \E sc \in ScoreInputs(p) :
          EditParagraph(p, t, sc, "none")

SpecVersion == InitCommented /\ [][NextVersion]_vars

\* C30: CreateNewVersion on a document with at least one comment and at
\* least one paragraph completes successfully: the new version has
\* version_number = chain size + 1 and status 'edited' and holds exactly one
\* paragraph row per paragraph number of its archive, and the parent has
\* status 'archived'.
C30_NewVersionCreated ==
    (/\ last.op = "CreateNewVersion"
     /\ pre.comments # {}
     /\ pre.paras # {})
        => /\ last.code = 200
           /\ version.exists
           /\ version.number = 2
           /\ version.status = "edited"
           /\ {r.pid : r \in version.paras}
                 = 1..Cardinality(ParseNumbered(version.archive.body))
           /\ \A r, q \in version.paras : r.pid = q.pid => r = q
           /\ doc.status = "archived"

\* the requests handled in a behaviour in which paragraphs are commented,
\* edited, renumbered and edited again
RenumberRequests == 4

\* an uploaded document that carries comments, with RenumberRequests requests
\* to come
InitRenumber ==
    \E body \in CommentedBodies :
        /\ archive = CommentedArchive(body)
        /\ paras = parse_paragraphs(body)
        /\ comments = upload_comments(archive, paras)
        /\ nextUid = Len(body)
        /\ nops = MaxOps - RenumberRequests
        /\ now = 0
        /\ last = Outcome("Upload", 0, "", "none", 200, FALSE, FALSE)
        /\ pre = Snapshot
        /\ hist = [last |-> last, pre |-> pre]
        /\ doc = [status |-> "original", edited |-> {}]
        /\ version = NoVersion
        /\ sweep = Idle
        /\ procs = NoProcs
        /\ temp_dirs = NoScratch
        /\ backups = NoBackup
        /\ other = Missing
        /\ documents = NoDocuments

\* comments are added, paragraphs are edited with a new text, added in front
\* of a paragraph and deleted, none of the requests failing
NextRenumber ==
    \/ \E p \in 1..MaxPid(paras) : AddComment(p, "none")
    \/ \E p \in 1..MaxPid(paras) : \E sc \in ScoreInputs(p) :
          EditParagraph(p, "T", sc, "none")
    \/ \E k \in 1..MaxPid(paras) : AddParagraph("T", k, "none")
    \/ \E p \in 1..MaxPid(paras) : DeleteParagraph(p, "none")

SpecRenumber == InitRenumber /\ [][NextRenumber]_vars

\* the rows of the uploaded paragraphs whose text no edit has replaced: every
\* edit writes a text of NewTexts
NeverEdited(rows) == {r \in rows : r.text \notin NewTexts}

\* C31: an EditParagraph request creates a version only when every physical
\* paragraph of the document that carries a comment has itself been edited,
\* also when AddParagraph or DeleteParagraph renumbered the paragraphs between
\* the edits: no commented paragraph other than the one being edited still
\* has the text it was uploaded with.
C31_VersionOnlyWhenAllEdited ==
    [][(~version.exists /\ version'.exists /\ last'.op = "EditParagraph")
          => \A r \in NeverEdited(paras) :
                (\E c \in comments : c.para = r.elem) => r.pid = last'.arg]_vars

\* the XML parts that the mutations write through the formatter
XmlParts == {"word/comments.xml", "word/document.xml",
             "word/_rels/document.xml.rels", "[Content_Types].xml"}

\* what can happen in _write_xml_with_proper_formatting: nothing raises;
\* serializing or prettifying raises before the file is written ("minidom");
\* the file is written and the verification fails to read it ("read");
\* the file is written and ET.fromstring raises ParseError on it ("reparse")
FormatOutcomes == {"none", "minidom", "read", "reparse"}

\* XMLFormattingMixin._write_xml_with_proper_formatting: the form of the file
\* after the call.  The inner except catches ParseError and only prints a
\* warning; every other exception reaches the outer except, which writes the
\* tree again with tree.write
write_xml_with_proper_formatting(outcome) ==
    CASE outcome = "none" -> "pretty"
      [] outcome = "reparse" -> "malformed"
      [] OTHER -> "minimal"

\* the archive is extracted to the scratch directory: every part is as it
\* was in the archive
ExtractParts ==
    /\ temp_dirs[ScratchPath("A")] = Missing
    /\ archive.zip = "ok"
    /\ temp_dirs' = [temp_dirs EXCEPT ![ScratchPath("A")] =
                        [tree |-> archive, form |-> [part \in XmlParts |-> "extracted"]]]
    /\ UNCHANGED <<archive, paras, comments, nextUid, nops, last, pre, hist, doc,
                   version, now, sweep, procs, backups, other, documents>>

\* one part of the scratch directory is written through the formatter
WriteXml(part, outcome) ==
    LET sp == ScratchPath("A")
    IN  /\ temp_dirs[sp] # Missing
        /\ nops < MaxOps
        /\ nops' = nops + 1
        /\ temp_dirs' = [temp_dirs EXCEPT ![sp].form[part] =
                            write_xml_with_proper_formatting(outcome)]
        /\ pre' = Snapshot
        /\ hist' = [last |-> last, pre |-> pre]
        /\ last' = Outcome("write_xml", 0, part, outcome, 0, TRUE, FALSE)
        /\ UNCHANGED <<archive, paras, comments, nextUid, doc, version, now,
                       sweep, procs, backups, other, documents>>

InitFormat == Init \/ InitCommented

NextFormat ==
    \/ ExtractParts
    \/ \E part \in XmlParts, outcome \in FormatOutcomes : WriteXml(part, outcome)

SpecFormat == InitFormat /\ [][NextFormat]_vars

\* C32: when the formatter's re-parse of the file it has just written fails,
\* the part is written again with the minimal serialization of the tree, so
\* that no part that fails to parse is left in the scratch directory.
C32_FallbackOnReparse ==
    (last.op = "write_xml" /\ last.fail = "reparse")
        => /\ temp_dirs[ScratchPath("A")].form[last.text] = "minimal"
           /\ \A part \in XmlParts :
                 temp_dirs[ScratchPath("A")].form[part] # "malformed"

\* the process that runs an archive mutation is killed after it extracted the
\* archive: neither the cleanup nor the except clause runs, so the scratch
\* directory and the backup stay on disk
Crash(p) ==
    /\ procs[p].pc \in {"mutate", "repack"}
    /\ procs' = [procs EXCEPT ![p].pc = "done", ![p].raised = TRUE]
    /\ Quiet
    /\ UNCHANGED <<archive, other, paras, comments, nextUid, temp_dirs, backups>>

\* archive mutations are called one after the other on an uploaded document,
\* and a call may crash
NextCrash ==
    \/ NextSteps
    \/ Crash(1)

SpecCrash == Init /\ [][NextCrash]_vars

\* C33: every archive mutation extracts into a fresh scratch directory, also
\* when an earlier operation on the archive crashed and left its directory
\* behind: after the extraction the directory holds the entries of the
\* archive and nothing else, so nothing else is repacked.
C33_FreshScratch ==
    [][\A p \in Procs :
          (procs[p].pc = "extract" /\ procs'[p].pc = "mutate")
             => temp_dirs'[ScratchPath(procs[p].file)] = FileAt(procs[p].file)]_vars

-----------------------------------------------------------------------------
(* Several documents: uploads that may carry the same file name, and the   *)
(* versions created from them.  A Document row is followed as far as its   *)
(* file name, file path, version chain and status go; has_comments is      *)
(* Document.has_comments() of the row.                                     *)

MaxDocs == 4           \* Document rows in one behaviour
FileNames == {"a", "b"}     \* file names of uploads, without the extension

\* os.path.join(settings.MEDIA_ROOT, f"{uuid.uuid4()}_{file.name}")
UploadPath(uuid, name) == [uuid |-> uuid, name |-> name, v |-> 0]

\* os.path.join(media_dir, f"{name_parts[0]}_v{next_version_number}{name_parts[1]}"):
\* the directory is that of the uploads and the name carries no uuid
VersionPath(name, next_version_number) ==
    [uuid |-> 0, name |-> name, v |-> next_version_number]

\* Document.get_version_chain of a base document: the base and the rows
\* that point to it
get_version_chain(base_doc) ==
    {i \in 1..Len(documents) : i = base_doc \/ documents[i].base = base_doc}

\* the number after that of the base document
NumberAfterBase(base_doc) == documents[base_doc].version_number + 1

\* Document.get_next_version_number of a base document
NextVersionNumber(base_doc) == Cardinality(get_version_chain(base_doc)) + 1

\* the rest of the state is that of the single document of the requests
OneDocumentUnchanged ==
    UNCHANGED <<archive, paras, comments, nextUid, nops, last, pre, hist, doc,
                version, now, sweep, procs, temp_dirs, backups, other>>

\* UploadDocumentView.post: the Document row of an upload
UploadDocument(name, commented) ==
    /\ Len(documents) < MaxDocs
    /\ documents' = Append(documents,
          [filename |-> name,
           file_path |-> UploadPath(Len(documents) + 1, name),
           version_number |-> 1, version_status |-> "original",
           base |-> 0, parent |-> 0, has_comments |-> commented])
    /\ OneDocumentUnchanged

\* AddCommentView.post on document d: update_status_based_on_comments
AddCommentTo(d) ==
    /\ d \in 1..Len(documents)
    /\ documents' = [documents EXCEPT
          ![d].has_comments = TRUE,
          ![d].version_status = IF @ \in {"original", "edited"} THEN "commented" ELSE @]
    /\ OneDocumentUnchanged

\* the rows after a version of current_version was created: the file is
\* copied to the new path, the new row is created and the parent archived
WithNewVersion(current_version) ==
    LET base_doc == IF documents[current_version].base # 0
                    THEN documents[current_version].base ELSE current_version
        next_version_number == NextVersionNumber(base_doc)
        original_name == documents[base_doc].filename
        new_version ==
            [filename |-> original_name,
             file_path |-> VersionPath(original_name, next_version_number),
             version_number |-> next_version_number, version_status |-> "edited",
             base |-> base_doc, parent |-> current_version, has_comments |-> FALSE]
    IN  Append([documents EXCEPT ![current_version].version_status = "archived"],
               new_version)

\* EditParagraphView.put, lines 473-541: the edit of the last commented
\* paragraph of a document in status 'commented' creates a version
AutoVersion(d) ==
    /\ d \in 1..Len(documents)
    /\ Len(documents) < MaxDocs
    /\ documents[d].has_comments
    /\ documents[d].version_status = "commented"
    /\ documents' = WithNewVersion(d)
    /\ OneDocumentUnchanged

\* CreateNewVersionView.post, lines 2089-2166, on a document with comments
CreateNewVersionOf(d) ==
    /\ d \in 1..Len(documents)
    /\ Len(documents) < MaxDocs
    /\ documents[d].has_comments
    /\ documents' = WithNewVersion(d)
    /\ OneDocumentUnchanged

NextChain ==
    \/ \E name \in FileNames, commented \in BOOLEAN : UploadDocument(name, commented)
    \/ \E d \in 1..MaxDocs : AddCommentTo(d)
    \/ \E d \in 1..MaxDocs : AutoVersion(d)
    \/ \E d \in 1..MaxDocs : CreateNewVersionOf(d)

\* no upload is followed yet
InitChain == InitRace

SpecChain == InitChain /\ [][NextChain]_vars

\* C34: no two Document rows share the same file_path, versions created from
\* different uploads of the same file name included; so creating a version
\* never overwrites the archive of another document.
C34_DistinctFilePaths ==
    \A i, j \in 1..Len(documents) :
        documents[i].file_path = documents[j].file_path => i = j

\* the version chains: the rows without a base document head them
ChainBases == {b \in 1..Len(documents) : documents[b].base = 0}

\* C36: after any sequence of uploads and version creations, automatic or
\* through CreateNewVersion, handled one at a time, the version numbers
\* within one chain are pairwise distinct and are exactly 1..n, n the number
\* of documents of the chain.
C36_ChainNumbers ==
    \A b \in ChainBases :
        /\ {documents[i].version_number : i \in get_version_chain(b)}
              = 1..Cardinality(get_version_chain(b))
        /\ \A i, j \in get_version_chain(b) :
              documents[i].version_number = documents[j].version_number => i = j

\* a chain of three documents: the upload, a version created from it and a
\* version created from that version
C36_Witness ==
    \E b \in ChainBases :
        /\ Cardinality(get_version_chain(b)) = 3
        /\ \E i \in get_version_chain(b) :
              documents[i].parent # 0 /\ documents[documents[i].parent].parent # 0

\* C35: after any sequence of upload, AddComment, DeleteComment,
\* DeleteParagraph and sweep runs, a document that is not archived has
\* version_status 'commented' exactly when it has at least one comment row.
C35_CommentedIffComments ==
    doc.status # "archived" => (doc.status = "commented" <=> comments # {})

\* score >= 0.3, in tenths
PartialThreshold == 3

\* EditParagraphView.put, lines 577-587: the compliance_status that an
\* evaluation with this score (in tenths) saves
final_status(score) ==
    IF score >= CompliantThreshold THEN "compliant"
    ELSE IF score >= PartialThreshold THEN "partial" ELSE "non_compliant"

\* the step is an edit request that evaluates the comment with this id
EvaluatedAs(comment_id, status) ==
    /\ nops' = nops + 1
    /\ last'.op = "EditParagraph"
    /\ comment_id \in DOMAIN last'.scores
    /\ final_status(last'.scores[comment_id]) = status

C37_ParentUntouched ==
    [][(~version.exists /\ version'.exists /\ last'.op = "EditParagraph")
          => /\ paras' = paras
             /\ comments' = comments
             /\ archive' = archive
             /\ doc'.status = "archived"
             /\ \E r \in version'.paras :
                   r.pid = last'.arg /\ r.text = last'.text]_vars

\* an edit has created a version that holds the new text, which the rows of
\* the document addressed do not hold
C37_Witness ==
    /\ last.op = "EditParagraph"
    /\ last.code = 200
    /\ version.exists
    /\ doc.status = "archived"
    /\ \E r \in version.paras : r.pid = last.arg /\ r.text = last.text /\ r \notin paras

\* the rows by ascending paragraph_id
Ascending(rows) == OrderedRows(rows)

\* order_by('-paragraph_id'): the rows by descending paragraph_id
Descending(rows) ==
    [k \in 1..Cardinality(rows) |-> OrderedRows(rows)[Cardinality(rows) + 1 - k]]

\* the rows of the document after the first k rows of order were saved with
\* their paragraph_id changed by delta
SavedUpTo(rows, order, delta, k) ==
    {IF \E j \in 1..k : order[j] = r THEN [r EXCEPT !.pid = @ + delta] ELSE r :
        r \in rows}

\* AddParagraphView.post, lines 859-869: the rows of the document after each
\* save of the loop that increments the rows from position on
AddRenumbering(rows, position) ==
    LET paragraphs_to_update == {r \in rows : position > 0 /\ r.pid >= position}
    IN  [k \in 0..Cardinality(paragraphs_to_update) |->
            SavedUpTo(rows, Descending(paragraphs_to_update), 1, k)]

\* DeleteParagraphView.delete, lines 1022-1033: the rows of the document
\* after paragraph.delete() and after each save of the loop that decrements
\* the rows behind the deleted one
DeleteRenumbering(rows, paragraph_id) ==
    LET left == {r \in rows : r.pid # paragraph_id}
        paragraphs_to_update == {r \in left : r.pid > paragraph_id}
    IN  [k \in 0..Cardinality(paragraphs_to_update) |->
            SavedUpTo(left, OrderedRows(paragraphs_to_update), -1, k)]

\* no two rows hold the same paragraph_id (unique_together)
UniqueNumbers(rows) == \A r, q \in rows : r.pid = q.pid => r = q

\* the loop ends with the rows that the request leaves, less the row created
RenumberingOfLast ==
    IF last.op = "AddParagraph" THEN AddRenumbering(pre.paras, last.arg)
    ELSE DeleteRenumbering(pre.paras, last.arg)

\* C39: at every intermediate step of the renumbering of the rows by
\* AddParagraph (rows from position on incremented in descending order) and by
\* DeleteParagraph (row deleted, rows behind it decremented in ascending
\* order) no two rows of the document hold the same paragraph_id.
C39_UniqueMidRenumbering ==
    (\/ last.op = "AddParagraph"
     \/ last.op = "DeleteParagraph" /\ last.code = 200)
        => /\ \A k \in DOMAIN RenumberingOfLast : UniqueNumbers(RenumberingOfLast[k])
           /\ RenumberingOfLast[Cardinality(DOMAIN RenumberingOfLast) - 1] \subseteq paras
           /\ UniqueNumbers(paras)

\* a request has changed three rows or more: it shifted them one after the
\* other, or deleted one and shifted those behind it
C39_Witness ==
    /\ last.op \in {"AddParagraph", "DeleteParagraph"}
    /\ last.code \in {200, 201}
    /\ Cardinality({r \in pre.paras : r \notin paras}) >= 3

====
